---- MODULE Spec2Model ----
(***************************************************************************)
(* A model of the capability server (src/src/capabilities/server.py):     *)
(* the CapabilityIndex with its three name-keyed mappings, the load that  *)
(* clears and repopulates them statement by statement, the queries, and   *)
(* the CapabilityServer's reload handler.                                   *)
(*                                                                         *)
(* Two specifications are given.  Spec is the index used by one caller at *)
(* a time (every call runs to completion before the next one begins), on  *)
(* a disk whose capability files change between loads.  ConcSpec is the   *)
(* running server: reload requests are handled in their own threads and   *)
(* interleave, statement by statement, with each other and with the       *)
(* queries of the main thread.                                             *)
(***************************************************************************)
EXTENDS Integers, Sequences, FiniteSets, TLC

\* ------------------------------------------------------------------ bounds
\* The most capability files (of all three kinds together) on the disk.
MaxFiles == 3
\* The number of threads handling reload requests of the service.
NumHandlers == 2
\* The most capability files on the disk of the running server (ConcSpec).
MaxServerFiles == 2

\* ------------------------------------------------------------------- data
\* The names a capability file can declare.
Names == {"X", "Y"}

\* Package paths.  The capability packages live under PkgRoot; no other
\* path holds any.
Paths == {"a", "b"}
PkgRoot == "a"

\* The main thread, and the threads of the service's request handlers.
Main == 0
Handlers == 1..NumHandlers
Threads == {Main} \cup Handlers

SeqsUpTo(S, n) == UNION {[1..k -> S] : k \in 0..n}

\* A Python value that is None or a list of paths.
None == [isNone |-> TRUE, val |-> <<>>]
Some(l) == [isNone |-> FALSE, val |-> l]
\* The values a caller hands over for ros_package_path.
PathLists == {None, Some(<<>>)} \cup {Some(<<p>>) : p \in Paths}

\* Python truthiness of such a value: None and [] are falsy.
Truthy(x) == ~x.isNone /\ Len(x.val) > 0

\* The parsed records: what capability_interface_from_file_path and its two
\* siblings return.
InterfaceRecords == {[kind |-> "interface", name |-> n] : n \in Names}
ProviderRecords ==
    {[kind |-> "provider", name |-> n, ref |-> r] : n \in Names, r \in Names}
SemanticInterfaceRecords ==
    {[kind |-> "semantic_interface", name |-> n, ref |-> r] : n \in Names, r \in Names}

\* Provider.implements and SemanticInterface.redefines.
implements(p) == p.ref
redefines(s) == s.ref

\* A file index: the capability files of each kind, in discovery order.
FileIndex(is, ps, ss) ==
    [interfaces |-> is, providers |-> ps, semantic_interfaces |-> ss]
NoFiles == FileIndex(<<>>, <<>>, <<>>)
NumFiles(c) == Len(c.interfaces) + Len(c.providers) + Len(c.semantic_interfaces)
Disks ==
    UNION {UNION {{FileIndex(is, ps, ss) :
                      ss \in SeqsUpTo(SemanticInterfaceRecords,
                                      MaxFiles - Len(is) - Len(ps))} :
                  ps \in SeqsUpTo(ProviderRecords, MaxFiles - Len(is))} :
           is \in SeqsUpTo(InterfaceRecords, MaxFiles)}

\* A dict keyed by name.
EmptyDict == [k \in {} |-> None]
Put(d, k, v) == [x \in DOMAIN d \cup {k} |-> IF x = k THEN v ELSE d[x]]
Values(d) == {d[k] : k \in DOMAIN d}

\* ------------------------------------------------------------------ state
VARIABLES
    disk,                  \* the capability files under PkgRoot
    constructed,           \* CapabilityIndex.__init__ has returned
    _ros_package_path,     \* CapabilityIndex._ros_package_path
    _interfaces,           \* CapabilityIndex._interfaces
    _providers,            \* CapabilityIndex._providers
    _semantic_interfaces,  \* CapabilityIndex._semantic_interfaces
    pc,                    \* per thread: the statement it is about to execute
    op,                    \* per thread: the call it is executing
    arg,                   \* per thread: the argument the load was called with
    ros_package_path,      \* per thread: the load's local ros_package_path
    capabilities,          \* per thread: the load's local file index
    pos,                   \* per thread: the position of the load's current loop
    out,                   \* what the call completed by the last step returned
    last_override,         \* history: the roots most recently handed over
    prev,                  \* history: the previous load's files and its result
    inputs                 \* history: what main() read at its start

index == <<_ros_package_path, _interfaces, _providers, _semantic_interfaces>>
locals == <<pc, op, arg, ros_package_path, capabilities, pos>>
history == <<last_override, prev, inputs>>
vars == <<disk, constructed, index, locals, out, history>>

Mappings == <<_interfaces, _providers, _semantic_interfaces>>
IndexedNames ==
    DOMAIN _interfaces \cup DOMAIN _providers \cup DOMAIN _semantic_interfaces

NoOut == [op |-> "none", arg |-> "", val |-> {}, ret |-> "none"]
NoPrev == [valid |-> FALSE, output |-> NoFiles,
           maps |-> <<EmptyDict, EmptyDict, EmptyDict>>]
NoOverride == [known |-> FALSE, roots |-> None, replaced |-> FALSE]
NoInputs == [read |-> FALSE, package_path |-> None, environ |-> None,
             yields |-> FALSE]

Init ==
    /\ disk \in Disks
    /\ constructed = FALSE
    /\ _ros_package_path = None
    /\ _interfaces = EmptyDict
    /\ _providers = EmptyDict
    /\ _semantic_interfaces = EmptyDict
    /\ pc = [t \in Threads |-> "idle"]
    /\ op = [t \in Threads |-> "none"]
    /\ arg = [t \in Threads |-> None]
    /\ ros_package_path = [t \in Threads |-> None]
    /\ capabilities = [t \in Threads |-> NoFiles]
    /\ pos = [t \in Threads |-> 0]
    /\ out = NoOut
    /\ last_override = NoOverride
    /\ prev = NoPrev
    /\ inputs = NoInputs

\* ------------------------------------------------------- discovery (opaque)
\* _build_package_dict and _build_file_index: the capability files of the
\* packages found under the given paths.
DiscoverFiles(paths, d) ==
    IF ~paths.isNone /\ \E k \in 1..Len(paths.val) : paths.val[k] = PkgRoot
    THEN d
    ELSE NoFiles

\* ------------------------------------------------------------ _check_name
\* A check that forgets the provider mapping.
CheckNameSkipsProviders(name) ==
    ~(\/ name \in DOMAIN _interfaces
      \/ name \in DOMAIN _semantic_interfaces)

\* A check that forgets the interface mapping.
CheckNameSkipsInterfaces(name) ==
    ~(\/ name \in DOMAIN _providers
      \/ name \in DOMAIN _semantic_interfaces)

\* A check that does not look into the semantic interfaces.
CheckNameSkipsSemanticInterfaces(name) ==
    ~(\/ name \in DOMAIN _interfaces
      \/ name \in DOMAIN _providers)

\* True when the name is a key of none of the three mappings.
CheckName(name) ==
    ~(\/ name \in DOMAIN _interfaces
      \/ name \in DOMAIN _providers
      \/ name \in DOMAIN _semantic_interfaces)

\* The three loops of lines 92-106 run from empty mappings by a load that no
\* other thread disturbs: the mappings it leaves.
Accepted(m, name) == name \notin (DOMAIN m[1] \cup DOMAIN m[2] \cup DOMAIN m[3])

RECURSIVE LoopResult(_, _, _, _)
LoopResult(m, which, files, k) ==
    IF k > Len(files) THEN m
    ELSE LoopResult(IF Accepted(m, files[k].name)
                    THEN [m EXCEPT ![which] = Put(@, files[k].name, files[k])]
                    ELSE m,
                    which, files, k + 1)

LoadResult(c) ==
    LoopResult(LoopResult(LoopResult(<<EmptyDict, EmptyDict, EmptyDict>>,
                                     1, c.interfaces, 1),
                          2, c.providers, 1),
               3, c.semantic_interfaces, 1)

\* -------------------------------------------------------------- the calls
Set(f, t, v) == [f EXCEPT ![t] = v]
Idle(t) == pc[t] = "idle"
\* No call is in flight on any thread.
Quiescent == \A t \in Threads : Idle(t)

\* The roots most recently handed over, as the callers see it: a non-empty
\* list is an override; after an empty list nothing is recorded.
Handed(o) ==
    IF o.isNone THEN last_override
    ELSE IF Truthy(o)
         THEN [known |-> TRUE, roots |-> o, replaced |-> o # _ros_package_path]
         ELSE NoOverride

\* A thread enters load_from_ros_package_path(o) on behalf of the call c.
Enter(t, c, o) ==
    /\ pc' = Set(pc, t, "resolve")
    /\ op' = Set(op, t, c)
    /\ arg' = Set(arg, t, o)
    /\ ros_package_path' = Set(ros_package_path, t, o)
    /\ out' = NoOut
    /\ UNCHANGED <<disk, capabilities, pos, prev, inputs>>

\* CapabilityIndex(r): lines 64 and 65, then the load of line 66.  The object
\* is not visible to any other thread before __init__ returns.
Construct(r) ==
    /\ ~constructed
    /\ Idle(Main)
    /\ _ros_package_path' = r
    /\ _interfaces' = EmptyDict
    /\ _providers' = EmptyDict
    /\ _semantic_interfaces' = EmptyDict
    /\ last_override' = [known |-> TRUE, roots |-> r, replaced |-> FALSE]
    /\ Enter(Main, "__init__", r)
    /\ UNCHANGED constructed

\* A direct call of load_from_ros_package_path(o) on the constructed index.
Reload(t, o) ==
    /\ constructed
    /\ Idle(t)
    /\ last_override' = Handed(o)
    /\ Enter(t, "load_from_ros_package_path", o)
    /\ UNCHANGED <<constructed, index>>

\* A handler that hands the load a path list of its own.
HandleReloadRequestOverrides(t) ==
    /\ constructed
    /\ Idle(t)
    /\ Enter(t, "handle_reload_request", Some(<<"b">>))
    /\ UNCHANGED <<constructed, index, last_override>>

\* CapabilityServer.handle_reload_request: the load is called with no argument.
HandleReloadRequest(t) ==
    /\ constructed
    /\ Idle(t)
    /\ Enter(t, "handle_reload_request", None)
    /\ UNCHANGED <<constructed, index, last_override>>

\* --------------------------------------------- load_from_ros_package_path
\* A load that uses an override without storing it.
ResolveForgets(t) ==
    /\ pc[t] = "resolve"
    /\ IF ~Truthy(ros_package_path[t])
       THEN ros_package_path' = Set(ros_package_path, t, _ros_package_path)
       ELSE UNCHANGED ros_package_path
    /\ pc' = Set(pc, t, "clear_interfaces")
    /\ out' = NoOut
    /\ UNCHANGED <<disk, constructed, index, op, arg, capabilities, pos, history>>

\* A load that stores an override and still discovers under the old paths.
ResolveUsesStored(t) ==
    /\ pc[t] = "resolve"
    /\ ros_package_path' = Set(ros_package_path, t, _ros_package_path)
    /\ IF ~Truthy(ros_package_path[t])
       THEN UNCHANGED _ros_package_path
       ELSE _ros_package_path' = ros_package_path[t]
    /\ pc' = Set(pc, t, "clear_interfaces")
    /\ out' = NoOut
    /\ UNCHANGED <<disk, constructed, Mappings, op, arg, capabilities, pos, history>>

\* Lines 81-85: a falsy argument takes the stored paths, any other is stored.
Resolve(t) ==
    /\ pc[t] = "resolve"
    /\ IF ~Truthy(ros_package_path[t])
       THEN /\ ros_package_path' = Set(ros_package_path, t, _ros_package_path)
            /\ UNCHANGED _ros_package_path
       ELSE /\ _ros_package_path' = ros_package_path[t]
            /\ UNCHANGED ros_package_path
    /\ pc' = Set(pc, t, "clear_interfaces")
    /\ out' = NoOut
    /\ UNCHANGED <<disk, constructed, Mappings, op, arg, capabilities, pos, history>>

\* Line 88, _initialize_capabilities: three assignments (lines 71-73).
ClearInterfaces(t) ==
    /\ pc[t] = "clear_interfaces"
    /\ _interfaces' = EmptyDict
    /\ pc' = Set(pc, t, "clear_providers")
    /\ out' = NoOut
    /\ UNCHANGED <<disk, constructed, _ros_package_path, _providers,
                   _semantic_interfaces, op, arg, ros_package_path,
                   capabilities, pos, history>>

\* A clear that leaves the providers of the previous load in place.
ClearProvidersKeeps(t) ==
    /\ pc[t] = "clear_providers"
    /\ pc' = Set(pc, t, "clear_semantic_interfaces")
    /\ out' = NoOut
    /\ UNCHANGED <<disk, constructed, index, op, arg, ros_package_path,
                   capabilities, pos, history>>

ClearProviders(t) ==
    /\ pc[t] = "clear_providers"
    /\ _providers' = EmptyDict
    /\ pc' = Set(pc, t, "clear_semantic_interfaces")
    /\ out' = NoOut
    /\ UNCHANGED <<disk, constructed, _ros_package_path, _interfaces,
                   _semantic_interfaces, op, arg, ros_package_path,
                   capabilities, pos, history>>

ClearSemanticInterfaces(t) ==
    /\ pc[t] = "clear_semantic_interfaces"
    /\ _semantic_interfaces' = EmptyDict
    /\ pc' = Set(pc, t, "discover")
    /\ out' = NoOut
    /\ UNCHANGED <<disk, constructed, _ros_package_path, _interfaces,
                   _providers, op, arg, ros_package_path,
                   capabilities, pos, history>>

\* Lines 90-91: discovery reads the disk.
Discover(t) ==
    /\ pc[t] = "discover"
    /\ capabilities' = Set(capabilities, t, DiscoverFiles(ros_package_path[t], disk))
    /\ pos' = Set(pos, t, 1)
    /\ pc' = Set(pc, t, "check_interface")
    /\ out' = NoOut
    /\ UNCHANGED <<disk, constructed, index, op, arg, ros_package_path, history>>

\* A loop that a rejected name ends (break for continue).
CheckBreaks(t, at, files, accepted, next) ==
    /\ pc[t] = at
    /\ IF pos[t] > Len(files) \/ ~CheckName(files[pos[t]].name)
       THEN /\ pc' = Set(pc, t, next)
            /\ pos' = Set(pos, t, 1)
       ELSE /\ pc' = Set(pc, t, accepted)
            /\ UNCHANGED pos
    /\ out' = NoOut
    /\ UNCHANGED <<disk, constructed, index, op, arg, ros_package_path,
                   capabilities, history>>

\* One pass of a loop head with its name check (lines 92-95, 97-100, 102-105):
\* past the last file the next loop begins; a rejected name continues with
\* the next file; an accepted one goes on to the insertion.
Check(t, at, files, accepted, next) ==
    /\ pc[t] = at
    /\ IF pos[t] > Len(files)
       THEN /\ pc' = Set(pc, t, next)
            /\ pos' = Set(pos, t, 1)
       ELSE IF CheckName(files[pos[t]].name)
            THEN /\ pc' = Set(pc, t, accepted)
                 /\ UNCHANGED pos
            ELSE /\ pos' = Set(pos, t, pos[t] + 1)
                 /\ UNCHANGED pc
    /\ out' = NoOut
    /\ UNCHANGED <<disk, constructed, index, op, arg, ros_package_path,
                   capabilities, history>>

CheckInterface(t) ==
    Check(t, "check_interface", capabilities[t].interfaces,
          "insert_interface", "check_provider")

CheckProvider(t) ==
    Check(t, "check_provider", capabilities[t].providers,
          "insert_provider", "check_semantic_interface")

CheckSemanticInterface(t) ==
    Check(t, "check_semantic_interface", capabilities[t].semantic_interfaces,
          "insert_semantic_interface", "ret")

\* Line 96.
InsertInterface(t) ==
    /\ pc[t] = "insert_interface"
    /\ LET interface == capabilities[t].interfaces[pos[t]]
       IN _interfaces' = Put(_interfaces, interface.name, interface)
    /\ pos' = Set(pos, t, pos[t] + 1)
    /\ pc' = Set(pc, t, "check_interface")
    /\ out' = NoOut
    /\ UNCHANGED <<disk, constructed, _ros_package_path, _providers,
                   _semantic_interfaces, op, arg, ros_package_path,
                   capabilities, history>>

\* An insertion under the name of the implemented interface.
InsertProviderUnderImplements(t) ==
    /\ pc[t] = "insert_provider"
    /\ LET provider == capabilities[t].providers[pos[t]]
       IN _providers' = Put(_providers, implements(provider), provider)
    /\ pos' = Set(pos, t, pos[t] + 1)
    /\ pc' = Set(pc, t, "check_provider")
    /\ out' = NoOut
    /\ UNCHANGED <<disk, constructed, _ros_package_path, _interfaces,
                   _semantic_interfaces, op, arg, ros_package_path,
                   capabilities, history>>

\* Line 101.
InsertProvider(t) ==
    /\ pc[t] = "insert_provider"
    /\ LET provider == capabilities[t].providers[pos[t]]
       IN _providers' = Put(_providers, provider.name, provider)
    /\ pos' = Set(pos, t, pos[t] + 1)
    /\ pc' = Set(pc, t, "check_provider")
    /\ out' = NoOut
    /\ UNCHANGED <<disk, constructed, _ros_package_path, _interfaces,
                   _semantic_interfaces, op, arg, ros_package_path,
                   capabilities, history>>

\* Line 106.
InsertSemanticInterface(t) ==
    /\ pc[t] = "insert_semantic_interface"
    /\ LET semantic_interface == capabilities[t].semantic_interfaces[pos[t]]
       IN _semantic_interfaces' =
              Put(_semantic_interfaces, semantic_interface.name, semantic_interface)
    /\ pos' = Set(pos, t, pos[t] + 1)
    /\ pc' = Set(pc, t, "check_semantic_interface")
    /\ out' = NoOut
    /\ UNCHANGED <<disk, constructed, _ros_package_path, _interfaces,
                   _providers, op, arg, ros_package_path,
                   capabilities, history>>

\* The load returns; __init__ returns with it (line 66), and
\* handle_reload_request answers EmptyResponse() (line 176).
Return(t) ==
    /\ pc[t] = "ret"
    /\ constructed' = (constructed \/ op[t] = "__init__")
    /\ out' = [op |-> op[t], arg |-> "", val |-> {},
               ret |-> IF op[t] = "handle_reload_request"
                       THEN "EmptyResponse" ELSE "None"]
    /\ pc' = Set(pc, t, "idle")
    /\ op' = Set(op, t, "none")
    /\ arg' = Set(arg, t, None)
    /\ ros_package_path' = Set(ros_package_path, t, None)
    /\ capabilities' = Set(capabilities, t, NoFiles)
    /\ pos' = Set(pos, t, 0)
    /\ UNCHANGED <<disk, index, last_override, inputs>>

\* The statements of the load, up to its return.
LoadStep(t) ==
    \/ Resolve(t)
    \/ ClearInterfaces(t)
    \/ ClearProviders(t)
    \/ ClearSemanticInterfaces(t)
    \/ Discover(t)
    \/ CheckInterface(t)
    \/ InsertInterface(t)
    \/ CheckProvider(t)
    \/ InsertProvider(t)
    \/ CheckSemanticInterface(t)
    \/ InsertSemanticInterface(t)

\* ------------------------------------------------------------ the queries
\* The interface names a caller asks about: the declared ones and one more.
QueryNames == Names \cup {"NoSuchInterface"}

get_interfaces == Values(_interfaces)
\* A query that matches the provider's own name.
get_providers_by_name(interface_name) ==
    {p \in Values(_providers) : p.name = interface_name}

\* A query that answers only for an interface the index holds.
get_providers_of_known(interface_name) ==
    IF interface_name \in DOMAIN _interfaces
    THEN {p \in Values(_providers) : implements(p) = interface_name}
    ELSE {}

get_providers(interface_name) ==
    {p \in Values(_providers) : implements(p) = interface_name}
get_semantic_interfaces(interface_name) ==
    {p \in Values(_semantic_interfaces) : redefines(p) = interface_name}

\* A query that takes the providers out of the index as it answers.
QueryConsumes(t, name, n, result) ==
    /\ constructed
    /\ Idle(t)
    /\ out' = [op |-> name, arg |-> n, val |-> result, ret |-> "list"]
    /\ _providers' = EmptyDict
    /\ UNCHANGED <<disk, constructed, _ros_package_path, _interfaces,
                   _semantic_interfaces, locals, history>>

\* A query is one call on the constructed index; it returns a list, of which
\* the order is not significant.
Query(t, name, n, result) ==
    /\ constructed
    /\ Idle(t)
    /\ out' = [op |-> name, arg |-> n, val |-> result, ret |-> "list"]
    /\ UNCHANGED <<disk, constructed, index, locals, history>>

GetInterfaces(t) == Query(t, "get_interfaces", "", get_interfaces)
GetProviders(t, n) == Query(t, "get_providers", n, get_providers(n))
GetSemanticInterfaces(t, n) ==
    Query(t, "get_semantic_interfaces", n, get_semantic_interfaces(n))

\* all_capabilities_as_string: a text made of the three mappings.
all_capabilities_as_string == Mappings
AllCapabilitiesAsString(t) ==
    /\ constructed
    /\ Idle(t)
    /\ out' = [op |-> "all_capabilities_as_string", arg |-> "",
               val |-> {all_capabilities_as_string}, ret |-> "str"]
    /\ UNCHANGED <<disk, constructed, index, locals, history>>

\* ------------------------------------------------------------- the stubs
\* The raise statement: an exception class is raised; anything else makes the
\* statement itself fail with TypeError.  NotImplemented is the constant of
\* the rich comparisons, not an exception class.
ExceptionClasses == {"NotImplementedError", "TypeError"}
NotImplemented == "NotImplemented"
Raise(x) == IF x \in ExceptionClasses THEN x ELSE "TypeError"

\* A stub: its body is the raise statement alone.
Stub(t, name) ==
    /\ constructed
    /\ Idle(t)
    /\ out' = [op |-> name, arg |-> "", val |-> {}, ret |-> Raise(NotImplemented)]
    /\ UNCHANGED <<disk, constructed, index, locals, history>>

StubNames == {"verify_tree", "view_capabilities_as_dot", "advertize_services"}
VerifyTree(t) == Stub(t, "verify_tree")
ViewCapabilitiesAsDot(t) == Stub(t, "view_capabilities_as_dot")
AdvertizeServices(t) == Stub(t, "advertize_services")

\* --------------------------------------------------------------- the disk
RemoveAt(s, k) == [j \in 1..(Len(s) - 1) |-> IF j < k THEN s[j] ELSE s[j + 1]]

\* The capability files change: one is added or one is removed.  Only
\* discovery reads the disk, so a change is taken as the moment a load is
\* about to read it.
DiskChange ==
    /\ \E t \in Threads : pc[t] = "discover"
    /\ \/ /\ NumFiles(disk) < MaxFiles
          /\ \/ \E r \in InterfaceRecords :
                    disk' = [disk EXCEPT !.interfaces = Append(@, r)]
             \/ \E r \in ProviderRecords :
                    disk' = [disk EXCEPT !.providers = Append(@, r)]
             \/ \E r \in SemanticInterfaceRecords :
                    disk' = [disk EXCEPT !.semantic_interfaces = Append(@, r)]
       \/ \E k \in 1..Len(disk.interfaces) :
              disk' = [disk EXCEPT !.interfaces = RemoveAt(@, k)]
       \/ \E k \in 1..Len(disk.providers) :
              disk' = [disk EXCEPT !.providers = RemoveAt(@, k)]
       \/ \E k \in 1..Len(disk.semantic_interfaces) :
              disk' = [disk EXCEPT !.semantic_interfaces = RemoveAt(@, k)]
    /\ prev' = NoPrev
    /\ out' = NoOut
    /\ UNCHANGED <<constructed, index, locals, last_override, inputs>>

\* ----------------------------------------------- one caller at a time: Spec
\* The history of a load that returns: its files and its result.
Completed(t) ==
    [valid |-> TRUE, output |-> capabilities[t], maps |-> Mappings]

SerialReturn(t) == Return(t) /\ prev' = Completed(t)

SerialReload(o) == Quiescent /\ Reload(Main, o)
\* The service with one request at a time: one handler thread serves it.
SerialHandleReloadRequest == Quiescent /\ HandleReloadRequest(1)
SerialGetInterfaces == Quiescent /\ GetInterfaces(Main)
SerialGetProviders(n) == Quiescent /\ GetProviders(Main, n)
SerialGetSemanticInterfaces(n) == Quiescent /\ GetSemanticInterfaces(Main, n)
SerialAllCapabilitiesAsString == Quiescent /\ AllCapabilitiesAsString(Main)
SerialVerifyTree == Quiescent /\ VerifyTree(Main)
SerialViewCapabilitiesAsDot == Quiescent /\ ViewCapabilitiesAsDot(Main)
SerialAdvertizeServices == Quiescent /\ AdvertizeServices(Main)

Next ==
    \/ \E r \in PathLists : Construct(r)
    \/ \E o \in PathLists : SerialReload(o)
    \/ SerialHandleReloadRequest
    \/ \E t \in Threads : LoadStep(t)
    \/ \E t \in Threads : SerialReturn(t)
    \/ SerialGetInterfaces
    \/ \E n \in QueryNames : SerialGetProviders(n)
    \/ \E n \in QueryNames : SerialGetSemanticInterfaces(n)
    \/ DiskChange

Spec == Init /\ [][Next]_vars

\* ------------------------------- every method of the index: IndexSpec
\* One caller constructs a CapabilityIndex and calls its methods, one call at
\* a time, over files that do not change.
IndexInit == Init /\ NumFiles(disk) <= MaxServerFiles

IndexNext ==
    \/ \E r \in PathLists : Construct(r)
    \/ \E o \in PathLists : SerialReload(o)
    \/ LoadStep(Main)
    \/ SerialReturn(Main)
    \/ SerialGetInterfaces
    \/ \E n \in QueryNames : SerialGetProviders(n)
    \/ \E n \in QueryNames : SerialGetSemanticInterfaces(n)
    \/ SerialAllCapabilitiesAsString
    \/ SerialVerifyTree
    \/ SerialViewCapabilitiesAsDot
    \/ SerialAdvertizeServices

IndexSpec == IndexInit /\ [][IndexNext]_vars

\* ------------------------------------------- the running server: ConcSpec
\* main() constructs the index and the server, then queries the index
\* (lines 218-235) while the service's handler threads serve reload requests.
\* The history keeps the result of a load that returns while no other load
\* is in flight, and nothing of one that returns in the middle of another.
ConcReturn(t) ==
    /\ Return(t)
    /\ prev' = IF \A u \in Threads \ {t} : Idle(u) THEN Completed(t) ELSE NoPrev

ConcInit == Init /\ NumFiles(disk) <= MaxServerFiles

ConcNext ==
    \/ \E r \in PathLists : Construct(r)
    \/ \E t \in Handlers : HandleReloadRequest(t)
    \/ \E t \in Threads : LoadStep(t)
    \/ \E t \in Threads : ConcReturn(t)
    \/ GetInterfaces(Main)
    \/ \E n \in QueryNames : GetProviders(Main, n)
    \/ \E n \in QueryNames : GetSemanticInterfaces(Main, n)

ConcSpec == ConcInit /\ [][ConcNext]_vars

\* --------------------------------------------- main()'s start: BootSpec
\* The text of a path list: characters, with ":" between the paths.  The
\* paths of the model are one character long.
MaxChars == 2
Chars == {":", "a", "b"}
Strings ==
    {s \in SeqsUpTo(Chars, MaxChars) :
         \A k \in 1..(Len(s) - 1) : s[k] = ":" \/ s[k + 1] = ":"}
\* args.package_path and os.environ's ROS_PACKAGE_PATH: absent, or a text.
MainInputs == {None} \cup {Some(s) : s \in Strings}

\* str.split(':'): the pieces between the colons, empty pieces included.
RECURSIVE split(_)
split(s) ==
    IF \A k \in 1..Len(s) : s[k] # ":"
    THEN <<s>>
    ELSE LET k == CHOOSE i \in 1..Len(s) :
                      s[i] = ":" /\ \A j \in 1..(i - 1) : s[j] # ":"
         IN <<SubSeq(s, 1, k - 1)>> \o split(SubSeq(s, k + 1, Len(s)))

\* The path a piece spells; "" is the empty path.
PathOf(x) == IF x = <<>> THEN "" ELSE x[1]

\* A list comprehension that keeps the empty pieces.
PathsOfKeepsEmpty(s) ==
    LET l == split(s) IN [k \in 1..Len(l) |-> PathOf(l[k])]

\* Line 213: [x for x in ros_package_path.split(':') if x].
PathsOf(s) ==
    LET l == SelectSeq(split(s), LAMBDA x : x # <<>>)
    IN [k \in 1..Len(l) |-> PathOf(l[k])]

\* os.environ.get('ROS_PACKAGE_PATH', '').
EnvironGet(e) == IF e.isNone THEN <<>> ELSE e.val

\* A source of paths names a path: its text has a character that is no colon.
NamesAPath(x) == ~x.isNone /\ \E k \in 1..Len(x.val) : x.val[k] # ":"

\* Lines 209-212: the arguments are parsed; ros_package_path is the argument
\* or, when that is absent or empty, the environment's value.
MainParse(a, e) ==
    /\ ~constructed
    /\ Idle(Main)
    /\ ~inputs.read
    /\ pc' = Set(pc, Main, "main_213")
    /\ op' = Set(op, Main, "main")
    /\ ros_package_path' =
           Set(ros_package_path, Main,
               Some(IF Truthy(a) THEN a.val ELSE EnvironGet(e)))
    /\ inputs' = [read |-> TRUE, package_path |-> a, environ |-> e,
                  yields |-> NamesAPath(a) \/ NamesAPath(e)]
    /\ out' = NoOut
    /\ UNCHANGED <<disk, constructed, index, arg, capabilities, pos,
                   last_override, prev>>

\* Line 213.
MainSplit ==
    /\ pc[Main] = "main_213"
    /\ pc' = Set(pc, Main, "main_214")
    /\ ros_package_path' =
           Set(ros_package_path, Main, Some(PathsOf(ros_package_path[Main].val)))
    /\ out' = NoOut
    /\ UNCHANGED <<disk, constructed, index, op, arg, capabilities, pos,
                   history>>

\* Lines 214-215: sys.exit('No package paths specified, ...') ends the
\* process with status 1.
MainExit ==
    /\ pc[Main] = "main_214"
    /\ ~Truthy(ros_package_path[Main])
    /\ pc' = Set(pc, Main, "exit")
    /\ out' = [op |-> "main", arg |-> "", val |-> {}, ret |-> "SystemExit(1)"]
    /\ UNCHANGED <<disk, constructed, index, op, arg, ros_package_path,
                   capabilities, pos, history>>

\* Line 218: ci = CapabilityIndex(ros_package_path).  The history keeps the
\* texts main read until here.
MainConstruct ==
    /\ pc[Main] = "main_214"
    /\ Truthy(ros_package_path[Main])
    /\ _ros_package_path' = ros_package_path[Main]
    /\ _interfaces' = EmptyDict
    /\ _providers' = EmptyDict
    /\ _semantic_interfaces' = EmptyDict
    /\ last_override' = [known |-> TRUE, roots |-> ros_package_path[Main],
                         replaced |-> FALSE]
    /\ pc' = Set(pc, Main, "resolve")
    /\ op' = Set(op, Main, "__init__")
    /\ arg' = Set(arg, Main, ros_package_path[Main])
    /\ inputs' = [inputs EXCEPT !.package_path = None, !.environ = None]
    /\ out' = NoOut
    /\ UNCHANGED <<disk, constructed, ros_package_path, capabilities, pos, prev>>

BootInit == Init /\ NumFiles(disk) <= MaxServerFiles

BootNext ==
    \/ \E a \in MainInputs, e \in MainInputs : MainParse(a, e)
    \/ MainSplit
    \/ MainExit
    \/ MainConstruct
    \/ LoadStep(Main)
    \/ SerialReturn(Main)

BootSpec == BootInit /\ [][BootNext]_vars


\* ================================================================ claims
NamesOf(files) == {files[k].name : k \in 1..Len(files)}
RecordsOf(files) == {files[k] : k \in 1..Len(files)}
FileNames(c) ==
    NamesOf(c.interfaces) \cup NamesOf(c.providers) \cup NamesOf(c.semantic_interfaces)

\* The key sets of the three mappings are pairwise disjoint.
PairwiseDisjoint ==
    /\ DOMAIN _interfaces \cap DOMAIN _providers = {}
    /\ DOMAIN _interfaces \cap DOMAIN _semantic_interfaces = {}
    /\ DOMAIN _providers \cap DOMAIN _semantic_interfaces = {}

\* The load of thread t has run to its end and is about to return.
AtReturn(t) == pc[t] = "ret"

\* C1: once the constructor or any load of a sequence of loads has run to its
\* end, with or without an override and whatever discovery found, no name is
\* a key of more than one of the three mappings.
C1_UniqueAfterLoad ==
    (\A t \in Threads : Idle(t) \/ AtReturn(t)) => PairwiseDisjoint

\* C1's case: a reload with an override ends after discovery found one name
\* in two kinds.
C1_Witness ==
    \E t \in Threads :
        /\ AtReturn(t)
        /\ op[t] = "load_from_ros_package_path"
        /\ Truthy(arg[t])
        /\ NamesOf(capabilities[t].interfaces)
               \cap NamesOf(capabilities[t].providers) # {}
        /\ PairwiseDisjoint

\* C3: when a load ends, a name discovered as an interface is indexed as an
\* interface and as nothing else, and a name discovered as a provider and not
\* as an interface is indexed as a provider and not as a semantic interface.
C3_EarlierKindWins ==
    \A t \in Threads :
        AtReturn(t) =>
            \A n \in Names :
                /\ n \in NamesOf(capabilities[t].interfaces) =>
                       /\ n \in DOMAIN _interfaces
                       /\ _interfaces[n].kind = "interface"
                       /\ n \notin DOMAIN _providers
                       /\ n \notin DOMAIN _semantic_interfaces
                /\ n \in NamesOf(capabilities[t].providers)
                           \ NamesOf(capabilities[t].interfaces) =>
                       /\ n \in DOMAIN _providers
                       /\ _providers[n].kind = "provider"
                       /\ n \notin DOMAIN _semantic_interfaces

\* C3's case: one name discovered in all three kinds, kept as an interface.
C3_Witness ==
    \E t \in Threads : \E n \in Names :
        /\ AtReturn(t)
        /\ n \in NamesOf(capabilities[t].interfaces)
        /\ n \in NamesOf(capabilities[t].providers)
        /\ n \in NamesOf(capabilities[t].semantic_interfaces)
        /\ n \in DOMAIN _interfaces
        /\ n \notin DOMAIN _providers \cup DOMAIN _semantic_interfaces

\* C4: a load with no override that ends while the files are as the previous
\* load found them leaves the three mappings as the previous load left them.
C4_ReloadIdempotent ==
    \A t \in Threads :
        (AtReturn(t) /\ arg[t].isNone /\ prev.valid) => Mappings = prev.maps

\* C4's case: a Reload() after a load, on unchanged files that hold a
\* collision, with a non-empty index.
C4_Witness ==
    \E t \in Threads :
        /\ AtReturn(t)
        /\ op[t] = "load_from_ros_package_path"
        /\ arg[t].isNone
        /\ prev.valid
        /\ prev.output = capabilities[t]
        /\ Cardinality(FileNames(capabilities[t])) < NumFiles(capabilities[t])
        /\ IndexedNames # {}
        /\ Mappings = prev.maps

C6_EmptyOverrideIsOverride ==
    \A t \in Threads :
        (pc[t] = "discover" /\ op[t] # "__init__" /\ ~arg[t].isNone) =>
            /\ _ros_package_path = arg[t]
            /\ ros_package_path[t] = arg[t]

\* C7: get_providers(n) returns exactly the indexed providers that implement
\* n, get_semantic_interfaces(n) exactly the indexed semantic interfaces that
\* redefine n, and either returns a list, empty when nothing matches.
C7_RelationQueries ==
    /\ out.op = "get_providers" =>
           /\ out.ret = "list"
           /\ \A p \in ProviderRecords :
                  p \in out.val <=>
                      /\ p.name \in DOMAIN _providers
                      /\ _providers[p.name] = p
                      /\ p.ref = out.arg
           /\ out.val \subseteq ProviderRecords
    /\ out.op = "get_semantic_interfaces" =>
           /\ out.ret = "list"
           /\ \A p \in SemanticInterfaceRecords :
                  p \in out.val <=>
                      /\ p.name \in DOMAIN _semantic_interfaces
                      /\ _semantic_interfaces[p.name] = p
                      /\ p.ref = out.arg
           /\ out.val \subseteq SemanticInterfaceRecords

\* C7's case: of two indexed providers the query returns the one that
\* implements the name asked for.
C7_Witness ==
    /\ out.op = "get_providers"
    /\ Cardinality(DOMAIN _providers) = 2
    /\ Cardinality(out.val) = 1
    /\ \A p \in out.val : p.ref = out.arg /\ p.name # out.arg

\* C9: when a load ends, the names indexed are the names discovered, each in
\* one mapping.
C9_CollisionNeverAborts ==
    \A t \in Threads :
        AtReturn(t) =>
            /\ IndexedNames = FileNames(capabilities[t])
            /\ PairwiseDisjoint

\* C9's case: a provider rejected for its name, and the provider after it
\* indexed.
C9_Witness ==
    \E t \in Threads :
        /\ AtReturn(t)
        /\ \E k \in 1..(Len(capabilities[t].providers) - 1) :
               LET files == capabilities[t].providers
               IN /\ files[k].name \in DOMAIN _interfaces
                  /\ files[k + 1].name \in DOMAIN _providers
                  /\ _providers[files[k + 1].name] = files[k + 1]

\* C10: when a load ends, every indexed entity is a record this load
\* discovered, of the mapping's kind, and no name the previous load left
\* indexed is indexed unless this load discovered it.
C10_ReplacesNeverMerges ==
    \A t \in Threads :
        AtReturn(t) =>
            /\ Values(_interfaces) \subseteq RecordsOf(capabilities[t].interfaces)
            /\ Values(_providers) \subseteq RecordsOf(capabilities[t].providers)
            /\ Values(_semantic_interfaces)
                   \subseteq RecordsOf(capabilities[t].semantic_interfaces)
            /\ \A n \in Names :
                   (/\ prev.valid
                    /\ n \in DOMAIN prev.maps[1] \cup DOMAIN prev.maps[2]
                                 \cup DOMAIN prev.maps[3]
                    /\ n \notin FileNames(capabilities[t])) => n \notin IndexedNames

\* C10's case: a reload ends; a provider the previous load had indexed was
\* not discovered again and is gone.
C10_Witness ==
    \E t \in Threads : \E n \in Names :
        /\ AtReturn(t)
        /\ op[t] # "__init__"
        /\ prev.valid
        /\ n \in DOMAIN prev.maps[2]
        /\ n \notin FileNames(capabilities[t])
        /\ n \notin IndexedNames

\* What a query answers on the mappings m.
AnswerOn(m, name, n) ==
    CASE name = "get_interfaces" -> Values(m[1])
      [] name = "get_providers" -> {p \in Values(m[2]) : implements(p) = n}
      [] name = "get_semantic_interfaces" -> {p \in Values(m[3]) : redefines(p) = n}

\* The load of thread t has read its files.
Discovered(t) == pc[t] \notin {"idle", "resolve", "clear_interfaces",
                              "clear_providers", "clear_semantic_interfaces",
                              "discover"}

\* C2: a query answered while one reload is in progress answers as on the
\* mappings the previous load left or as on the mappings this reload leaves.
C2_QueryDuringReloadAtomic ==
    \A t \in Handlers :
        (/\ out.ret = "list"
         /\ ~Idle(t)
         /\ \A u \in Threads \ {t} : Idle(u)
         /\ prev.valid) =>
            \/ out.val = AnswerOn(prev.maps, out.op, out.arg)
            \/ /\ Discovered(t)
               /\ out.val = AnswerOn(LoadResult(capabilities[t]), out.op, out.arg)

\* C8: at most one load is in flight.
C8_OneReloadInFlight ==
    Cardinality({t \in Threads : ~Idle(t)}) <= 1

\* The mappings a load leaves, run alone, are those of the three loops run
\* from empty mappings.
LoadResultAgrees ==
    \A t \in Threads : AtReturn(t) => Mappings = LoadResult(capabilities[t])

\* C11: a reload request of the service enters the load with no argument; as
\* long as it is served the stored paths stay as they are and the load
\* discovers under them; the handler answers EmptyResponse.
C11_ServiceReloadNoOverride ==
    /\ [](\A t \in Threads :
              op[t] = "handle_reload_request" =>
                  /\ arg[t].isNone
                  /\ pc[t] \notin {"idle", "resolve"} =>
                         ros_package_path[t] = _ros_package_path)
    /\ [](out.op = "handle_reload_request" => out.ret = "EmptyResponse")
    /\ [][(\E t \in Threads : op[t] = "handle_reload_request")
              => _ros_package_path' = _ros_package_path]_vars

\* C11's case: a reload request answered after its load discovered, under
\* the stored paths, files that it indexed.
C11_Witness ==
    /\ out.op = "handle_reload_request"
    /\ out.ret = "EmptyResponse"
    /\ Truthy(_ros_package_path)
    /\ IndexedNames # {}

\* C12: when neither the argument nor the environment names a path, main()
\* ends with exit status 1 and constructs no CapabilityIndex: no mapping is
\* filled and no load starts; an index that main() constructs has stored a
\* non-empty list of non-empty paths.
C12_NoPathsNoIndex ==
    /\ (inputs.read /\ ~inputs.yields) =>
           /\ pc[Main] \in {"main_213", "main_214", "exit"}
           /\ pc[Main] = "main_214" => ~Truthy(ros_package_path[Main])
           /\ ~constructed
           /\ _ros_package_path = None
           /\ IndexedNames = {}
    /\ pc[Main] = "exit" =>
           /\ out.ret = "SystemExit(1)"
           /\ ~constructed
           /\ _ros_package_path = None
    /\ (constructed \/ op[Main] = "__init__") =>
           /\ inputs.yields
           /\ Truthy(_ros_package_path)
           /\ \A k \in 1..Len(_ros_package_path.val) :
                  _ros_package_path.val[k] \in Paths

\* C12's case: main() has exited although the environment variable was set,
\* to a text of colons only.
C12_Witness ==
    /\ pc[Main] = "exit"
    /\ inputs.package_path.isNone
    /\ Truthy(inputs.environ)
    /\ ~inputs.yields

\* C13: verify_tree, view_capabilities_as_dot and advertize_services end in
\* NotImplementedError, whatever the index holds.
C13_StubsRaiseNotImplementedError ==
    out.op \in StubNames => out.ret = "NotImplementedError"

\* The positions of a file list at which a name is read for the first time,
\* and those at which it is read again for the last time.
FirstOfName(files, k) == \A j \in 1..(k - 1) : files[j].name # files[k].name
LastRepeatOfName(files, k) ==
    /\ \E j \in 1..(k - 1) : files[j].name = files[k].name
    /\ \A j \in (k + 1)..Len(files) : files[j].name # files[k].name

\* C14 as stated: when a load returns and a mapping holds a name that the
\* files of its kind carry more than once, it holds the last of these records.
C14_LaterOverwrites ==
    \A t \in Threads :
        AtReturn(t) =>
            /\ \A k \in 1..Len(capabilities[t].providers) :
                   LET f == capabilities[t].providers[k] IN
                   (LastRepeatOfName(capabilities[t].providers, k)
                        /\ f.name \in DOMAIN _providers)
                       => _providers[f.name] = f
            /\ \A k \in 1..Len(capabilities[t].semantic_interfaces) :
                   LET f == capabilities[t].semantic_interfaces[k] IN
                   (LastRepeatOfName(capabilities[t].semantic_interfaces, k)
                        /\ f.name \in DOMAIN _semantic_interfaces)
                       => _semantic_interfaces[f.name] = f

\* C14 amended: when a load returns, a name that no earlier kind carries is
\* held by the mapping of its kind with the first record of that name; the
\* records that repeat the name are dropped.
C14_EarlierIsKept ==
    \A t \in Threads :
        AtReturn(t) =>
            LET c == capabilities[t] IN
            /\ \A k \in 1..Len(c.interfaces) :
                   FirstOfName(c.interfaces, k) =>
                       /\ c.interfaces[k].name \in DOMAIN _interfaces
                       /\ _interfaces[c.interfaces[k].name] = c.interfaces[k]
            /\ \A k \in 1..Len(c.providers) :
                   (FirstOfName(c.providers, k)
                        /\ c.providers[k].name \notin NamesOf(c.interfaces)) =>
                       /\ c.providers[k].name \in DOMAIN _providers
                       /\ _providers[c.providers[k].name] = c.providers[k]
            /\ \A k \in 1..Len(c.semantic_interfaces) :
                   (FirstOfName(c.semantic_interfaces, k)
                        /\ c.semantic_interfaces[k].name \notin
                               NamesOf(c.interfaces) \cup NamesOf(c.providers)) =>
                       /\ c.semantic_interfaces[k].name
                              \in DOMAIN _semantic_interfaces
                       /\ _semantic_interfaces[c.semantic_interfaces[k].name]
                              = c.semantic_interfaces[k]

\* C14's case: a load returns after reading two providers of one name that
\* implement different interfaces; the mapping holds the first.
C14_Witness ==
    \E t \in Threads :
        /\ AtReturn(t)
        /\ \E j, k \in 1..Len(capabilities[t].providers) :
               /\ j < k
               /\ capabilities[t].providers[j].name
                      = capabilities[t].providers[k].name
               /\ capabilities[t].providers[j] # capabilities[t].providers[k]
               /\ capabilities[t].providers[j].name \in DOMAIN _providers
               /\ _providers[capabilities[t].providers[j].name]
                      = capabilities[t].providers[j]

\* The file list a thread's name check reads from, and the thread being
\* about to check the name of a file.
CheckedFiles(t) ==
    IF pc[t] = "check_interface" THEN capabilities[t].interfaces
    ELSE IF pc[t] = "check_provider" THEN capabilities[t].providers
    ELSE capabilities[t].semantic_interfaces
Checking(t) ==
    /\ pc[t] \in {"check_interface", "check_provider",
                  "check_semantic_interface"}
    /\ pos[t] <= Len(CheckedFiles(t))

\* C15: the name check of a record, of whatever kind, fails exactly when the
\* name is a key of the interfaces, of the providers or of the semantic
\* interfaces (the load then continues with the next file) and succeeds
\* otherwise (the load goes on to insert); the check changes no mapping.
C15_CheckNameIffKeyOfAny ==
    [][\A t \in Threads :
           (Checking(t) /\ <<pc[t], pos[t]>>' # <<pc[t], pos[t]>>) =>
               LET name == CheckedFiles(t)[pos[t]].name
                   isKey == \/ name \in DOMAIN _interfaces
                            \/ name \in DOMAIN _providers
                            \/ name \in DOMAIN _semantic_interfaces
               IN /\ Mappings' = Mappings
                  /\ isKey => (pc'[t] = pc[t] /\ pos'[t] = pos[t] + 1)
                  /\ ~isKey => /\ pos'[t] = pos[t]
                               /\ pc'[t] \in {"insert_interface",
                                              "insert_provider",
                                              "insert_semantic_interface"}]_vars

\* C15's case: a provider's name was checked and refused because it is a key
\* of the interfaces, though of no provider; the load is at the next file.
C15_Witness ==
    \E t \in Threads :
        /\ pc[t] = "check_provider"
        /\ pos[t] > 1
        /\ capabilities[t].providers[pos[t] - 1].name \in DOMAIN _interfaces
        /\ capabilities[t].providers[pos[t] - 1].name \notin DOMAIN _providers

\* C16: a provider (a semantic interface) is indexed when its own name is
\* new, also when the interface it implements (redefines) is no key of the
\* interfaces; and the query for that absent interface returns it.
C16_NoReferentialIntegrity ==
    /\ \A t \in Threads :
           AtReturn(t) =>
               LET c == capabilities[t] IN
               /\ \A k \in 1..Len(c.providers) :
                      (/\ FirstOfName(c.providers, k)
                       /\ c.providers[k].name \notin NamesOf(c.interfaces)
                       /\ implements(c.providers[k]) \notin DOMAIN _interfaces)
                          => c.providers[k] \in Values(_providers)
               /\ \A k \in 1..Len(c.semantic_interfaces) :
                      (/\ FirstOfName(c.semantic_interfaces, k)
                       /\ c.semantic_interfaces[k].name \notin
                              NamesOf(c.interfaces) \cup NamesOf(c.providers)
                       /\ redefines(c.semantic_interfaces[k])
                              \notin DOMAIN _interfaces)
                          => c.semantic_interfaces[k]
                                 \in Values(_semantic_interfaces)
    /\ (out.op = "get_providers" /\ out.arg \notin DOMAIN _interfaces) =>
           out.val = {p \in Values(_providers) : implements(p) = out.arg}
    /\ (out.op = "get_semantic_interfaces"
            /\ out.arg \notin DOMAIN _interfaces) =>
           out.val = {x \in Values(_semantic_interfaces) :
                          redefines(x) = out.arg}

\* C16's case: get_providers was asked for an interface the index does not
\* hold and returned a provider that implements it.
C16_Witness ==
    /\ out.op = "get_providers"
    /\ out.arg \notin DOMAIN _interfaces
    /\ \E p \in out.val : implements(p) = out.arg /\ p \in Values(_providers)

QueryOps == {"get_interfaces", "get_providers", "get_semantic_interfaces",
             "all_capabilities_as_string"}

\* C17: get_interfaces, get_providers, get_semantic_interfaces and
\* all_capabilities_as_string leave the three mappings and the stored paths
\* as they are, and a query that follows the same query with the same
\* argument returns the same.
C17_QueriesReadOnly ==
    [][out'.op \in QueryOps =>
           /\ index' = index
           /\ (out.op = out'.op /\ out.arg = out'.arg) => out'.val = out.val]_vars

\* C17's case: all_capabilities_as_string has described a filled index.
C17_Witness ==
    /\ out.op = "all_capabilities_as_string"
    /\ out.val = {Mappings}
    /\ DOMAIN _providers # {}

\* C18: in every state, in the middle of a load and with the loads of two
\* reload requests interleaved, no name is a key of two of the mappings.
C18_DisjointInEveryState ==
    /\ DOMAIN _interfaces \cap DOMAIN _providers = {}
    /\ DOMAIN _interfaces \cap DOMAIN _semantic_interfaces = {}
    /\ DOMAIN _providers \cap DOMAIN _semantic_interfaces = {}

\* C19: in every state each key of the interfaces, of the providers and of
\* the semantic interfaces is the name of the record stored under it, and
\* the record is of the mapping's kind.
C19_KeyIsNameOfKind ==
    /\ \A k \in DOMAIN _interfaces :
           _interfaces[k].name = k /\ _interfaces[k].kind = "interface"
    /\ \A k \in DOMAIN _providers :
           _providers[k].name = k /\ _providers[k].kind = "provider"
    /\ \A k \in DOMAIN _semantic_interfaces :
           /\ _semantic_interfaces[k].name = k
           /\ _semantic_interfaces[k].kind = "semantic_interface"

\* C19's case: a load is under way that has inserted a semantic interface
\* and a provider, the provider implementing an interface of another name
\* than its own.
C19_Witness ==
    /\ \E t \in Threads : pc[t] = "check_semantic_interface"
    /\ DOMAIN _semantic_interfaces # {}
    /\ \E k \in DOMAIN _providers : implements(_providers[k]) # k

====
